---- MODULE Spec2Model ----
(***************************************************************************)
(* Weekly attack-trend reports: script_files/weekly_reports.py, with the   *)
(* orchestration of script_files/main_weekly.py and the notifier of        *)
(* script_files/email_send_weekly.py.                                      *)
(*                                                                         *)
(* A datetime is a record [day, sec]: day is the proleptic Gregorian       *)
(* ordinal (datetime.toordinal()), sec the seconds since midnight.  A      *)
(* formatted date ('%Y-%m-%d') is the tuple <<year, month, day>>.  A trend *)
(* store is either Absent or the sequence of its data rows (the header     *)
(* line is implicit), each row [week_start, week_end, attacks_count] with  *)
(* the two dates in formatted form, as the CSV file holds them.            *)
(***************************************************************************)
EXTENDS Integers, Sequences, FiniteSets, TLC

VARIABLES
    files,          \* report_files/<cust>/weekly_trends_<week_end>.csv, by week_end
    db,             \* database_files/<cust>/database_<cust>_<mm>_<yyyy>.sqlite, by <<yyyy, mm>>
    week_end_day,   \* WEEK_END_DAY of the configuration
    last,           \* the last operation performed: its store, retention, code path,
                    \* and the shape of the store before it
    cal,            \* the last call of a week-window or query function and its result
    daily,          \* report_files/<cust>/weekly_day_trends_<week_end>.csv, by week_end
    html,           \* report_files/<cust>/weekly_trends_chart_<week_end>.html, by week_end
    run,            \* the process running main_weekly.py: its stage, configuration, exit
    mail,           \* the last call of send_weekly_email: result, report, SMTP traffic
    proc            \* the runs executing generate_weekly_reports one file operation at a time

vars == <<files, db, week_end_day, last, cal, daily, html, run, mail, proc>>

----------------------------------------------------------------------------
(* Bounds *)

MaxWeeks == 2       \* WEEKS_NO ranges over 0..MaxWeeks
MaxRec == 1         \* at most MaxRec attack records over all month databases
RefSpan == 3        \* reference dates range over FirstRef .. FirstRef + RefSpan
MaxRows == 2        \* length of an arbitrary pre-existing store

\* a file that does not exist: os.path.exists(path) is False
Absent == [exists |-> FALSE, rows |-> <<>>]

\* an existing CSV file with its data rows, or SQLite file with its records by date
File(rows) == [exists |-> TRUE, rows |-> rows]

----------------------------------------------------------------------------
(* The calendar of datetime: date <-> ordinal, weekday *)

Years == 2023..2025

IsLeap(y) == (y % 4 = 0) /\ ((y % 100 # 0) \/ (y % 400 = 0))

DaysInMonth(y, m) ==
    IF m = 2 THEN (IF IsLeap(y) THEN 29 ELSE 28)
    ELSE IF m \in {4, 6, 9, 11} THEN 30 ELSE 31

DaysBeforeYear(y) ==
    (y - 1) * 365 + ((y - 1) \div 4) - ((y - 1) \div 100) + ((y - 1) \div 400)

RECURSIVE DaysBeforeMonth(_, _)
DaysBeforeMonth(y, m) ==
    IF m = 1 THEN 0 ELSE DaysBeforeMonth(y, m - 1) + DaysInMonth(y, m - 1)

\* datetime.strptime(s, '%Y-%m-%d').toordinal()
strptime(s) == DaysBeforeYear(s[1]) + DaysBeforeMonth(s[1], s[2]) + s[3]

\* the date <<year, month, day>> of ordinal n (date.fromordinal)
FromOrdinal(n) ==
    LET y == CHOOSE yy \in Years :
                 DaysBeforeYear(yy) < n /\ n <= DaysBeforeYear(yy + 1)
        r == n - DaysBeforeYear(y)
        m == CHOOSE mm \in 1..12 :
                 DaysBeforeMonth(y, mm) < r
                 /\ r <= DaysBeforeMonth(y, mm) + DaysInMonth(y, mm)
    IN  <<y, m, r - DaysBeforeMonth(y, m)>>

\* the days the model computes with, and their dates
CalendarDays ==
    (strptime(<<2024, 3, 7>>) - 7 * (MaxWeeks + MaxRows + 4))
        .. (strptime(<<2024, 3, 7>>) + RefSpan + 14)
Calendar == [n \in CalendarDays |-> FromOrdinal(n)]

\* dt.strftime('%Y-%m-%d')
strftime(dt) == Calendar[dt.day]

\* datetime(y, m, d, 0, 0, 0)
datetime(y, m, d) == [day |-> strptime(<<y, m, d>>), sec |-> 0]

\* dt.weekday(): Monday = 0 .. Sunday = 6
weekday(dt) == (dt.day + 6) % 7

\* dt - timedelta(days=n)
minus_days(dt, n) == [dt EXCEPT !.day = @ - n]

\* a >= b on datetimes
dt_ge(a, b) == a.day > b.day \/ (a.day = b.day /\ a.sec >= b.sec)

----------------------------------------------------------------------------
(* Week-window calculator *)

\* a slip that always steps back one more week
get_one_week_behind_always_back(dt, wed) ==
    LET dt_normalized == [dt EXCEPT !.sec = 0]
        days_since_end == (weekday(dt_normalized) - wed) % 7
        week_end == minus_days(minus_days(dt_normalized, days_since_end), 7)
    IN  <<minus_days(week_end, 6), week_end>>

\* a slip that compares with > instead of >=
get_one_week_behind_gt(dt, wed) ==
    LET dt_normalized == [dt EXCEPT !.sec = 0]
        days_since_end == (weekday(dt_normalized) - wed) % 7
        week_end == minus_days(dt_normalized, days_since_end)
    IN  <<minus_days(week_end, 6), week_end>>

\* a slip that forgets to normalise the reference to midnight
get_one_week_behind_no_norm(dt, wed) ==
    LET days_since_end == (weekday(dt) - wed) % 7
        week_end0 == minus_days(dt, days_since_end)
        week_end == IF dt_ge(week_end0, [dt EXCEPT !.sec = 0])
                    THEN minus_days(week_end0, 7) ELSE week_end0
    IN  <<minus_days(week_end, 6), week_end>>

get_one_week_behind(dt, wed) ==
    LET dt_normalized == [dt EXCEPT !.sec = 0]
        days_since_end == (weekday(dt_normalized) - wed) % 7
        week_end0 == minus_days(dt_normalized, days_since_end)
        week_end == IF dt_ge(week_end0, dt_normalized)
                    THEN minus_days(week_end0, 7) ELSE week_end0
        week_start == minus_days(week_end, 6)
    IN  <<week_start, week_end>>

\* weeks.reverse()
Reverse(s) == [i \in 1..Len(s) |-> s[Len(s) + 1 - i]]

\* the list built by the loop for i in range(n)
RECURSIVE WeeksLoop(_, _, _)
WeeksLoop(start_date, n, wed) ==
    IF n <= 0 THEN <<>>
    ELSE Append(WeeksLoop(start_date, n - 1, wed),
                get_one_week_behind(minus_days(start_date, 7 * (n - 1)), wed))

\* a slip that leaves out weeks.reverse()
get_n_weeks_intervals_no_reverse(start_date, weeks_no, wed) ==
    WeeksLoop(start_date, weeks_no, wed)

get_n_weeks_intervals(start_date, weeks_no, wed) ==
    Reverse(WeeksLoop(start_date, weeks_no, wed))

----------------------------------------------------------------------------
(* Attack-count query over the per-month databases *)

\* text comparison of two '%Y-%m-%d' dates, as SQLite compares DATE(startDate)
str_le(a, b) ==
    \/ a[1] < b[1]
    \/ (a[1] = b[1] /\ a[2] < b[2])
    \/ (a[1] = b[1] /\ a[2] = b[2] /\ a[3] <= b[3])

\* os.path.exists(db_path)
db_exists(d, key) == key \in DOMAIN d /\ d[key].exists

RECURSIVE SumOver(_, _)
SumOver(f, S) ==
    IF S = {} THEN 0
    ELSE LET x == CHOOSE e \in S : TRUE IN f[x] + SumOver(f, S \ {x})

\* SELECT COUNT(*) FROM attacks WHERE DATE(startDate) >= lo AND DATE(startDate) <= hi
select_count(source, lo, hi) ==
    SumOver(source, {s \in DOMAIN source : str_le(lo, s) /\ str_le(s, hi)})

\* the set of (year, month) of the days week_start .. week_end
months_to_check(week_start, week_end) ==
    {<<strftime([day |-> n, sec |-> 0])[1], strftime([day |-> n, sec |-> 0])[2]>> :
        n \in week_start.day .. week_end.day}

\* a month database whose file exists but whose query raises (sqlite3.Error or any other
\* exception: not a database, no attacks table, locked)
Broken(rows) == [exists |-> TRUE, rows |-> rows, broken |-> TRUE]
query_fails(source) == "broken" \in DOMAIN source

get_attacks_count_for_week_first_month(week_start, week_end, d) ==
    LET key == <<strftime(week_start)[1], strftime(week_start)[2]>>
    IN  IF db_exists(d, key) /\ ~ query_fails(d[key])
        THEN select_count(d[key].rows, strftime(week_start), strftime(week_end))
        ELSE 0

get_attacks_count_for_week_abort(week_start, week_end, d) ==
    LET months == months_to_check(week_start, week_end)
        count == [key \in months |->
                    IF db_exists(d, key)
                    THEN select_count(d[key].rows, strftime(week_start), strftime(week_end))
                    ELSE 0]
    IN  IF \E key \in months : db_exists(d, key) /\ query_fails(d[key])
        THEN 0
        ELSE SumOver(count, months)

\* each month of the window in turn: an existing database adds its count unless its query
\* raises, which is caught inside the loop; a missing one adds nothing
get_attacks_count_for_week(week_start, week_end, d) ==
    LET months == months_to_check(week_start, week_end)
        count == [key \in months |->
                    IF db_exists(d, key)
                    THEN IF query_fails(d[key])
                         THEN 0
                         ELSE select_count(d[key].rows, strftime(week_start),
                                           strftime(week_end))
                    ELSE 0]
    IN  SumOver(count, months)

\* SELECT COUNT(*) FROM attacks WHERE DATE(startDate) = day
select_count_day(source, day) ==
    SumOver(source, {s \in DOMAIN source : s = day})

\* a slip that counts the records dated on or after the day, DATE(startDate) >= ?
get_attacks_count_for_day_from(date, d) ==
    LET key == <<strftime(date)[1], strftime(date)[2]>>
    IN  IF ~ db_exists(d, key)
        THEN 0
        ELSE IF query_fails(d[key])
             THEN 0
             ELSE SumOver(d[key].rows,
                          {s \in DOMAIN d[key].rows : str_le(strftime(date), s)})

\* the database of the month of date: 0 when it is missing or its query raises
get_attacks_count_for_day(date, d) ==
    LET key == <<strftime(date)[1], strftime(date)[2]>>
    IN  IF ~ db_exists(d, key)
        THEN 0
        ELSE IF query_fails(d[key])
             THEN 0
             ELSE select_count_day(d[key].rows, strftime(date))

----------------------------------------------------------------------------
(* Trend-store file operations on the content of one CSV file *)

Row(week_start, week_end, attacks_count) ==
    [week_start |-> strftime(week_start), week_end |-> strftime(week_end),
     attacks_count |-> attacks_count]

\* open(csv_path, 'a'): the header when the file is new, then the row
save_weekly_results_to_csv(content, week_start, week_end, attacks_count) ==
    File(content.rows \o <<Row(week_start, week_end, attacks_count)>>)

\* a slip that compares the week_start column with the week end
check_week_exists_in_csv_wrong_column(content, week_start, week_end) ==
    IF ~ content.exists THEN FALSE
    ELSE \E i \in 1..Len(content.rows) :
            /\ content.rows[i].week_start = strftime(week_end)
            /\ content.rows[i].week_end = strftime(week_end)

check_week_exists_in_csv(content, week_start, week_end) ==
    IF ~ content.exists THEN FALSE
    ELSE \E i \in 1..Len(content.rows) :
            /\ content.rows[i].week_start = strftime(week_start)
            /\ content.rows[i].week_end = strftime(week_end)

\* rows[start:] of Python, start possibly negative
PySliceFrom(rows, start) ==
    LET n == Len(rows)
        lo == IF start < 0 THEN (IF n + start < 0 THEN 0 ELSE n + start)
              ELSE (IF start > n THEN n ELSE start)
    IN  SubSeq(rows, lo + 1, n)

\* insertion of row x after every row whose key is <= its key
RECURSIVE InsertSorted(_, _)
InsertSorted(sorted, x) ==
    IF sorted = <<>> THEN <<x>>
    ELSE IF strptime(sorted[Len(sorted)].week_start) <= strptime(x.week_start)
         THEN Append(sorted, x)
         ELSE Append(InsertSorted(SubSeq(sorted, 1, Len(sorted) - 1), x),
                     sorted[Len(sorted)])

\* rows.sort(key=lambda x: strptime(x['week_start'])): a stable sort
RECURSIVE sort_rows(_)
sort_rows(rows) ==
    IF rows = <<>> THEN <<>>
    ELSE InsertSorted(sort_rows(SubSeq(rows, 1, Len(rows) - 1)), rows[Len(rows)])

\* a slip that keeps the oldest rows, rows[:weeks_no], instead of the latest
trim_csv_to_n_weeks_oldest(content, weeks_no) ==
    IF ~ content.exists THEN content
    ELSE LET rows == sort_rows(content.rows)
         IN  IF Len(rows) > weeks_no
             THEN File(SubSeq(rows, 1, weeks_no))
             ELSE content

\* a slip that trims without sorting
trim_csv_to_n_weeks_unsorted(content, weeks_no) ==
    IF ~ content.exists THEN content
    ELSE IF Len(content.rows) > weeks_no
         THEN File(PySliceFrom(content.rows, 0 - weeks_no))
         ELSE content

trim_csv_to_n_weeks(content, weeks_no) ==
    IF ~ content.exists THEN content
    ELSE LET rows == sort_rows(content.rows)
         IN  IF Len(rows) > weeks_no
             THEN File(PySliceFrom(rows, 0 - weeks_no))
             ELSE content

\* a slip that filters nothing out
remove_week_keeps_all(content, week_start, week_end) == File(content.rows)

\* rows = [row for row in rows if not (key matches)], written back
remove_week(content, week_start, week_end) ==
    LET keep(row) == ~ (/\ row.week_start = strftime(week_start)
                        /\ row.week_end = strftime(week_end))
    IN  File(SelectSeq(content.rows, keep))

----------------------------------------------------------------------------
(* generate_weekly_reports: the trend-store update of one run *)

\* a slip that names every store for the same date, whatever the week
csv_filename_undated(current_date, wed) == <<2024, 3, 6>>

\* csv_filename = f"weekly_trends_{week_end_str}.csv", identified by week_end_str
csv_filename(current_date, wed) == strftime(get_one_week_behind(current_date, wed)[2])

\* for (week_start, week_end) in n_weeks: query the week, append its row
RECURSIVE BootstrapLoop(_, _, _, _)
BootstrapLoop(content, n_weeks, i, d) ==
    IF i > Len(n_weeks) THEN content
    ELSE BootstrapLoop(
            save_weekly_results_to_csv(content, n_weeks[i][1], n_weeks[i][2],
                get_attacks_count_for_week(n_weeks[i][1], n_weeks[i][2], d)),
            n_weeks, i + 1, d)

\* the branch of the run: which of the three code paths the store takes
run_path(content, current_date, wed) ==
    LET last_week == get_one_week_behind(current_date, wed)
    IN  IF ~ content.exists THEN "bootstrap"
        ELSE IF check_week_exists_in_csv(content, last_week[1], last_week[2])
             THEN "overwrite" ELSE "append"

\* the windows get_attacks_count_for_week is called for, in order: every window of
\* n_weeks when the store is missing, the last completed week alone when it exists
queried_weeks(content, current_date, wed, weeks_no) ==
    IF ~ content.exists
    THEN get_n_weeks_intervals(current_date, weeks_no, wed)
    ELSE <<get_one_week_behind(current_date, wed)>>

\* the same when the first open for writing raises: the rewrite of the overwrite branch
\* comes before its query, the append of the other two branches after their first one
queried_weeks_before_failure(content, current_date, wed, weeks_no) ==
    IF run_path(content, current_date, wed) = "overwrite" THEN <<>>
    ELSE SubSeq(queried_weeks(content, current_date, wed, weeks_no), 1,
                IF weeks_no <= 0 /\ ~ content.exists THEN 0 ELSE 1)

\* a slip that refreshes every row of an existing store, not only the last week's
store_update_requery_all(content, current_date, wed, weeks_no, d) ==
    LET last_week == get_one_week_behind(current_date, wed)
        n_weeks == get_n_weeks_intervals(current_date, weeks_no, wed)
        fresh == get_attacks_count_for_week(last_week[1], last_week[2], d)
        requery(rows) ==
            [i \in 1..Len(rows) |->
                [rows[i] EXCEPT !.attacks_count =
                    get_attacks_count_for_week(
                        [day |-> strptime(rows[i].week_start), sec |-> 0],
                        [day |-> strptime(rows[i].week_end), sec |-> 0], d)]]
    IN  IF ~ content.exists THEN BootstrapLoop(content, n_weeks, 1, d)
        ELSE trim_csv_to_n_weeks(
                save_weekly_results_to_csv(
                    File(requery(remove_week(content, last_week[1], last_week[2]).rows)),
                    last_week[1], last_week[2], fresh),
                weeks_no)

\* a slip that appends the fresh row without removing the stored one
store_update_no_remove(content, current_date, wed, weeks_no, d) ==
    LET last_week == get_one_week_behind(current_date, wed)
        n_weeks == get_n_weeks_intervals(current_date, weeks_no, wed)
        fresh == get_attacks_count_for_week(last_week[1], last_week[2], d)
    IN  IF ~ content.exists THEN BootstrapLoop(content, n_weeks, 1, d)
        ELSE trim_csv_to_n_weeks(
                save_weekly_results_to_csv(content, last_week[1], last_week[2], fresh),
                weeks_no)

\* a slip that keeps the stored row when the week is already in the store
store_update_keep_stale(content, current_date, wed, weeks_no, d) ==
    LET last_week == get_one_week_behind(current_date, wed)
        n_weeks == get_n_weeks_intervals(current_date, weeks_no, wed)
        fresh == get_attacks_count_for_week(last_week[1], last_week[2], d)
    IN  IF ~ content.exists THEN BootstrapLoop(content, n_weeks, 1, d)
        ELSE IF check_week_exists_in_csv(content, last_week[1], last_week[2])
             THEN trim_csv_to_n_weeks(content, weeks_no)
             ELSE trim_csv_to_n_weeks(
                    save_weekly_results_to_csv(content, last_week[1], last_week[2], fresh),
                    weeks_no)

\* the content of the store csv_filename after the run, from its content before
store_update(content, current_date, wed, weeks_no, d) ==
    LET last_week == get_one_week_behind(current_date, wed)
        n_weeks == get_n_weeks_intervals(current_date, weeks_no, wed)
        fresh == get_attacks_count_for_week(last_week[1], last_week[2], d)
    IN  IF ~ content.exists THEN BootstrapLoop(content, n_weeks, 1, d)
        ELSE IF check_week_exists_in_csv(content, last_week[1], last_week[2])
             THEN trim_csv_to_n_weeks(
                    save_weekly_results_to_csv(
                        remove_week(content, last_week[1], last_week[2]),
                        last_week[1], last_week[2], fresh),
                    weeks_no)
             ELSE trim_csv_to_n_weeks(
                    save_weekly_results_to_csv(content, last_week[1], last_week[2], fresh),
                    weeks_no)

----------------------------------------------------------------------------
(* Daily file and chart documents *)

\* current_day.strftime('%A')
day_name(dt) ==
    <<"Monday", "Tuesday", "Wednesday", "Thursday", "Friday", "Saturday", "Sunday">>
        [weekday(dt) + 1]

DailyRow(current_day, attacks_count) ==
    [date |-> strftime(current_day), day_name |-> day_name(current_day),
     attacks_count |-> attacks_count]

\* while current_day <= week_end: one row per day, current_day += timedelta(days=1)
RECURSIVE DailyLoop(_, _, _)
DailyLoop(current_day, week_end, d) ==
    IF dt_ge(week_end, current_day)
    THEN <<DailyRow(current_day, get_attacks_count_for_day(current_day, d))>>
            \o DailyLoop([current_day EXCEPT !.day = @ + 1], week_end, d)
    ELSE <<>>

\* total_attacks += attacks_count over daily_data: the total generate_daily_attacks_csv
\* returns with the file name
RECURSIVE total_attacks(_)
total_attacks(daily_data) ==
    IF daily_data = <<>> THEN 0
    ELSE Head(daily_data).attacks_count + total_attacks(Tail(daily_data))

\* a slip that opens the daily file with 'a' instead of 'w'
generate_daily_attacks_csv_append(content, current_date, wed, d) ==
    LET week == get_one_week_behind(current_date, wed)
    IN  File(content.rows \o DailyLoop(week[1], week[2], d))

\* the seven days of the last completed week, written with open(csv_path, 'w')
generate_daily_attacks_csv(content, current_date, wed, d) ==
    LET week == get_one_week_behind(current_date, wed)
    IN  File(DailyLoop(week[1], week[2], d))

\* no chart document on disk
NoHtml == [exists |-> FALSE, title |-> "", daily |-> <<>>, weekly |-> <<>>]

\* a chart document: its title and the data arrays of its charts
Html(title, daily_data, weekly_data) ==
    [exists |-> TRUE, title |-> title, daily |-> daily_data, weekly |-> weekly_data]

\* insertion of the pair x after every pair whose date is <= its date
RECURSIVE InsertByDate(_, _)
InsertByDate(sorted, x) ==
    IF sorted = <<>> THEN <<x>>
    ELSE IF sorted[Len(sorted)][1] <= x[1]
         THEN Append(sorted, x)
         ELSE Append(InsertByDate(SubSeq(sorted, 1, Len(sorted) - 1), x),
                     sorted[Len(sorted)])

\* chart_data.sort(key=lambda x: x[0]): a stable sort
RECURSIVE sort_by_date(_)
sort_by_date(data) ==
    IF data = <<>> THEN <<>>
    ELSE InsertByDate(sort_by_date(SubSeq(data, 1, Len(data) - 1)), data[Len(data)])

\* (week_end, attacks_count) of every row read from the store
weekly_chart_data(rows) ==
    [i \in 1..Len(rows) |-> <<strptime(rows[i].week_end), rows[i].attacks_count>>]

\* ['%m/%d/%y' of week_end, attacks_count] for every pair
weekly_js_rows(chart_data) ==
    [i \in 1..Len(chart_data) |->
        <<<<Calendar[chart_data[i][1]][2], Calendar[chart_data[i][1]][3],
            Calendar[chart_data[i][1]][1] % 100>>, chart_data[i][2]>>]

\* the rows of the weekly chart, by week_end
weekly_js_data(content) == weekly_js_rows(sort_by_date(weekly_chart_data(content.rows)))

\* (date, day_name, attacks_count) of every row read from the daily file
daily_chart_data(rows) ==
    [i \in 1..Len(rows) |-> <<strptime(rows[i].date), rows[i].day_name,
                               rows[i].attacks_count>>]

\* ['day_name %m/%d', attacks_count] for every triple
daily_js_rows(chart_data) ==
    [i \in 1..Len(chart_data) |->
        <<chart_data[i][2],
          <<Calendar[chart_data[i][1]][2], Calendar[chart_data[i][1]][3]>>,
          chart_data[i][3]>>]

\* the rows of the daily chart, by date
daily_js_data(content) == daily_js_rows(sort_by_date(daily_chart_data(content.rows)))

\* the single weekly chart: when the store is missing the error page is only returned to
\* the caller, and the document on disk stays what it was
generate_google_chart(doc, weekly_content) ==
    IF ~ weekly_content.exists
    THEN doc
    ELSE Html("Weekly Attack Trends", <<>>, weekly_js_data(weekly_content))

\* the two-chart document: each file is read if it exists, and the page is always written
generate_combined_html_chart(doc, daily_content, weekly_content) ==
    Html("Attack Trends Report",
         IF daily_content.exists THEN daily_js_data(daily_content) ELSE <<>>,
         IF weekly_content.exists THEN weekly_js_data(weekly_content) ELSE <<>>)

\* the chart document a complete run leaves: the single chart, then the combined one
\* written to the same file name
render(doc, daily_content, weekly_content) ==
    generate_combined_html_chart(generate_google_chart(doc, weekly_content),
                                 daily_content, weekly_content)

----------------------------------------------------------------------------
(* Notifier (email_send_weekly.py) and orchestration (main_weekly.py) *)

\* the SMTP calls of a delivery, in order: starttls and login only when configured
smtp_calls(use_tls, use_auth) ==
    <<"connect">> \o (IF use_tls THEN <<"starttls">> ELSE <<>>)
                 \o (IF use_auth THEN <<"login">> ELSE <<>>)
                 \o <<"sendmail", "quit">>

\* the calls made until one raises: all of them when none does
RECURSIVE smtp_attempted(_, _)
smtp_attempted(calls, fails_at) ==
    IF calls = <<>> THEN <<>>
    ELSE IF Head(calls) = fails_at THEN <<Head(calls)>>
         ELSE <<Head(calls)>> \o smtp_attempted(Tail(calls), fails_at)

MailResult(week_end_date, result, reported, smtp) ==
    [called |-> TRUE, week_end_date |-> week_end_date, result |-> result,
     reported |-> reported, smtp |-> smtp]

\* a slip that leaves out the check of the HTML file: attaching it raises
send_weekly_email_no_html_check(week_end_date, csv, doc, use_tls, use_auth, fails_at) ==
    IF ~ csv.exists
    THEN MailResult(week_end_date, FALSE, "CSV file not found", <<>>)
    ELSE IF ~ doc.exists
         THEN MailResult(week_end_date, FALSE, "Error sending email", <<>>)
         ELSE IF \E i \in 1..Len(smtp_calls(use_tls, use_auth)) :
                    smtp_calls(use_tls, use_auth)[i] = fails_at
              THEN MailResult(week_end_date, FALSE, "Error sending email",
                              smtp_attempted(smtp_calls(use_tls, use_auth), fails_at))
              ELSE MailResult(week_end_date, TRUE, "Email sent successfully",
                              smtp_calls(use_tls, use_auth))

\* send_weekly_email(cust_id, week_end_date, email_config): csv and doc are the two files
\* named from week_end_date, fails_at the SMTP call that raises ("none": none does)
send_weekly_email(week_end_date, csv, doc, use_tls, use_auth, fails_at) ==
    IF ~ csv.exists
    THEN MailResult(week_end_date, FALSE, "CSV file not found", <<>>)
    ELSE IF ~ doc.exists
         THEN MailResult(week_end_date, FALSE, "HTML file not found", <<>>)
         ELSE IF \E i \in 1..Len(smtp_calls(use_tls, use_auth)) :
                    smtp_calls(use_tls, use_auth)[i] = fails_at
              THEN MailResult(week_end_date, FALSE, "Error sending email",
                              smtp_attempted(smtp_calls(use_tls, use_auth), fails_at))
              ELSE MailResult(week_end_date, TRUE, "Email sent successfully",
                              smtp_calls(use_tls, use_auth))

\* the conditions of weekly_config.ini: well formed, or with one defect
Configs ==
    {"ok", "file_missing", "section_missing", "bad_week_end_day", "bad_weeks_no",
     "bad_cur_date", "bad_subject_template"}

\* validate_configuration(): False when the configuration file does not exist
validate_configuration(config) == config # "file_missing"

\* a slip that reads a malformed number as its default
main_config_raises_lenient(config) == config = "section_missing"

\* main() before its try block: config['weekly_reports'] raises KeyError for a missing
\* section, getint raises ValueError for a non-integer WEEK_END_DAY or WEEKS_NO; the
\* unparsable cur_date is caught, reported as a warning and replaced by datetime.now()
main_config_raises(config) ==
    config \in {"section_missing", "bad_week_end_day", "bad_weeks_no"}

\* a slip that ignores the send_email toggle
main_step2_always(send_email, config) ==
    IF config = "bad_subject_template" THEN "raise" ELSE "send"

\* step 2 of main(): nothing when the toggle is off; subject_template.format raises
\* KeyError for a placeholder it is not given; otherwise send_weekly_email is called
main_step2(send_email, config) ==
    IF ~ send_email THEN "skip"
    ELSE IF config = "bad_subject_template" THEN "raise" ELSE "send"

----------------------------------------------------------------------------
(* generate_weekly_reports one file operation at a time *)

\* a header line that landed among the data lines: csv.DictReader reads it back as a
\* row whose fields are the column names, which are no dates
NoDate == <<0, 0, 0>>
HeaderLine == [week_start |-> NoDate, week_end |-> NoDate, attacks_count |-> 0]
has_header_line(rows) == \E i \in 1..Len(rows) : rows[i] = HeaderLine

\* a slip that opens the store with 'w' instead of 'a'
append_row_truncating(content, file_exists, row) == File(<<row>>)

\* open(csv_path, 'a') of save_weekly_results_to_csv: file_exists is what
\* os.path.exists answered before the open; the header is written when it was False
append_row(content, file_exists, row) ==
    IF file_exists THEN File(content.rows \o <<row>>)
    ELSE IF content.exists THEN File(content.rows \o <<HeaderLine, row>>)
         ELSE File(<<row>>)

\* a run about to start with these arguments on the store content orig
NewRun(current_date, weeks_no, orig) ==
    [pc |-> "start", current_date |-> current_date, weeks_no |-> weeks_no,
     path |-> "none", i |-> 0, rows |-> <<>>, file_exists |-> FALSE, at |-> "none",
     orig |-> orig]

----------------------------------------------------------------------------
(* State space *)

DateTime(n, s) == [day |-> n, sec |-> s]

FirstRef == datetime(2024, 3, 7).day
RefDays == FirstRef .. (FirstRef + RefSpan)
TimesOfDay == {0, 43200, 86399}
\* the reference dates of the week-window calls: every day of a week, three times a day
RefDates == {DateTime(n, s) : n \in FirstRef .. (FirstRef + 6), s \in TimesOfDay}

\* the reference dates of the runs: every day of RefDays, each at one time of day
RunDates == {DateTime(n, (n % 3) * 43199) : n \in RefDays}

\* the week ends a reference date of RefDays can select, as file names
FileNames == {strftime(DateTime(n, 0)) : n \in (FirstRef - 7) .. (FirstRef + RefSpan - 1)}

\* the month databases that may exist and the dates their records may carry
SourceKeys == {<<2024, 2>>, <<2024, 3>>}
RecDates == {<<2024, 2, 29>>, <<2024, 3, 3>>}

NoRecords == [s \in RecDates |-> 0]

\* a month database that does not exist
NoDatabase == [exists |-> FALSE, rows |-> NoRecords]
TotalRecords(d) ==
    SumOver([key \in SourceKeys |-> SumOver(d[key].rows, RecDates)], SourceKeys)

\* whether the rows are physically in ascending week_start order
IsAscending(rows) ==
    \A i \in 1..Len(rows) : \A j \in (i + 1)..Len(rows) :
        strptime(rows[i].week_start) <= strptime(rows[j].week_start)

NoOp(op) ==
    [op |-> op, weeks_no |-> 0, name |-> <<0, 0, 0>>, path |-> "none", repeat |-> FALSE,
     unsorted_before |-> FALSE, rows_before |-> 0, ok |-> TRUE, queried |-> <<>>]

\* no process runs main_weekly.py
NoRun ==
    [pc |-> "none", config |-> "ok", send_email |-> FALSE, current_date |-> DateTime(0, 0),
     weeks_no |-> 0, exit |-> -1, generated |-> <<>>, emailed |-> <<>>]

\* send_weekly_email has not been called
NoMail == [called |-> FALSE, week_end_date |-> <<0, 0, 0>>, result |-> FALSE,
           reported |-> "none", smtp |-> <<>>]

\* no run executes step by step
NoProcs == <<>>

NoCal ==
    [op |-> "none", dt |-> DateTime(0, 0), weeks_no |-> 0,
     window |-> <<DateTime(0, 0), DateTime(0, 0)>>, weeks |-> <<>>, count |-> 0]

----------------------------------------------------------------------------
(* Actions *)

\* the report files a complete run leaves under the week end `name`, and its record
write_reports(name, store, daily_csv, weeks_no, path, queried) ==
    /\ files' = [files EXCEPT ![name] = store]
    /\ daily' = [daily EXCEPT ![name] = daily_csv]
    /\ html' = [html EXCEPT ![name] = render(html[name], daily_csv, store)]
    /\ last' = [op |-> "run", weeks_no |-> weeks_no, name |-> name, path |-> path,
                repeat |-> (/\ last.op = "run"
                            /\ last.name = name
                            /\ last.weeks_no = weeks_no),
                unsorted_before |-> ~ IsAscending(files[name].rows),
                rows_before |-> Len(files[name].rows),
                ok |-> TRUE,
                queried |-> queried]

\* what one complete run of generate_weekly_reports(cust_id, week_end_day, weeks_no,
\* current_date) does to the report files: the store update, the daily file, the chart
generate_weekly_reports_body(current_date, weeks_no) ==
    write_reports(csv_filename(current_date, week_end_day),
                  store_update(files[csv_filename(current_date, week_end_day)],
                               current_date, week_end_day, weeks_no, db),
                  generate_daily_attacks_csv(daily[csv_filename(current_date, week_end_day)],
                                             current_date, week_end_day, db),
                  weeks_no,
                  run_path(files[csv_filename(current_date, week_end_day)],
                           current_date, week_end_day),
                  queried_weeks(files[csv_filename(current_date, week_end_day)],
                                current_date, week_end_day, weeks_no))

\* a run in which writing the report files raises (the report directory cannot be
\* written): the first open for writing fails, the except clause returns False
generate_weekly_reports_raises(current_date, weeks_no) ==
    /\ last' = [NoOp("run") EXCEPT !.weeks_no = weeks_no,
                                   !.name = csv_filename(current_date, week_end_day),
                                   !.path = "error", !.ok = FALSE,
                                   !.queried = queried_weeks_before_failure(
                                        files[csv_filename(current_date, week_end_day)],
                                        current_date, week_end_day, weeks_no)]
    /\ UNCHANGED <<files, daily, html>>

\* one complete run of generate_weekly_reports that returns True
generate_weekly_reports(current_date, weeks_no) ==
    /\ generate_weekly_reports_body(current_date, weeks_no)
    /\ UNCHANGED <<db, week_end_day, cal, run, mail, proc>>

\* the environment stores one more attack record dated date in the database key
AddRecord(key, date) ==
    /\ TotalRecords(db) < MaxRec
    /\ db' = [db EXCEPT ![key] =
                File([@.rows EXCEPT ![date] = @ + 1])]
    /\ last' = NoOp("data")
    /\ UNCHANGED <<files, week_end_day, cal, daily, html, run, mail, proc>>

\* trim_csv_to_n_weeks(cust_id, weeks_no, csv_filename) called on its own
TrimCsv(name, weeks_no) ==
    /\ files' = [files EXCEPT ![name] = trim_csv_to_n_weeks(files[name], weeks_no)]
    /\ last' = [NoOp("trim") EXCEPT !.name = name, !.weeks_no = weeks_no,
                                    !.unsorted_before = ~ IsAscending(files[name].rows),
                                    !.rows_before = Len(files[name].rows)]
    /\ UNCHANGED <<db, week_end_day, cal, daily, html, run, mail, proc>>

\* a call of get_one_week_behind(dt, week_end_day)
CallOneWeekBehind(dt) ==
    /\ cal' = [NoCal EXCEPT !.op = "one", !.dt = dt,
                            !.window = get_one_week_behind(dt, week_end_day)]
    /\ UNCHANGED <<files, db, week_end_day, last, daily, html, run, mail, proc>>

\* a call of get_n_weeks_intervals(dt, weeks_no, week_end_day)
CallNWeeksIntervals(dt, weeks_no) ==
    /\ cal' = [NoCal EXCEPT !.op = "n", !.dt = dt, !.weeks_no = weeks_no,
                            !.weeks = get_n_weeks_intervals(dt, weeks_no, week_end_day)]
    /\ UNCHANGED <<files, db, week_end_day, last, daily, html, run, mail, proc>>

\* a call of get_attacks_count_for_week(week_start, week_end, cust_id)
CallCountForWeek(week) ==
    /\ last.op = "init" /\ cal.op = "none"
    /\ cal' = [NoCal EXCEPT !.op = "week", !.window = week,
                            !.count = get_attacks_count_for_week(week[1], week[2], db)]
    /\ UNCHANGED <<files, db, week_end_day, last, daily, html, run, mail, proc>>

\* a call of get_attacks_count_for_day(date, cust_id)
CallCountForDay(date) ==
    /\ last.op = "init" /\ cal.op = "none"
    /\ cal' = [NoCal EXCEPT !.op = "day", !.dt = date,
                            !.count = get_attacks_count_for_day(date, db)]
    /\ UNCHANGED <<files, db, week_end_day, last, daily, html, run, mail, proc>>

\* a complete run as the only operation
RunOnce(current_date, weeks_no) ==
    /\ last.op = "init" /\ cal.op = "none"
    /\ generate_weekly_reports(current_date, weeks_no)

\* a call of send_weekly_email(cust_id, week_end_date, email_config)
CallSendWeeklyEmail(name, use_tls, use_auth, fails_at) ==
    /\ ~ mail.called
    /\ mail' = send_weekly_email(name, files[name], html[name], use_tls, use_auth, fails_at)
    /\ UNCHANGED <<files, db, week_end_day, last, cal, daily, html, run, proc>>

\* the process ends with the exit status code
Exit(code) == [run EXCEPT !.pc = "exited", !.exit = code]

\* __main__: validate_configuration(), sys.exit(1) when it fails
Validate ==
    /\ run.pc = "start"
    /\ run' = IF validate_configuration(run.config)
              THEN [run EXCEPT !.pc = "validated"]
              ELSE Exit(1)
    /\ UNCHANGED <<files, db, week_end_day, last, cal, daily, html, mail, proc>>

\* main() up to its try block: the configuration is read; an exception here is not
\* caught and ends the process with status 1
LoadConfiguration(current_date, weeks_no) ==
    /\ run.pc = "validated"
    /\ run' = IF main_config_raises(run.config)
              THEN Exit(1)
              ELSE [run EXCEPT !.pc = "loaded", !.current_date = current_date,
                               !.weeks_no = weeks_no]
    /\ UNCHANGED <<files, db, week_end_day, last, cal, daily, html, mail, proc>>

\* step 1 of main(): generate_weekly_reports; main returns False when it does
Generate ==
    /\ run.pc = "loaded"
    /\ \/ generate_weekly_reports_body(run.current_date, run.weeks_no)
       \/ generate_weekly_reports_raises(run.current_date, run.weeks_no)
    /\ run' = IF last'.ok
              THEN [run EXCEPT !.pc = "generated", !.generated = Append(@, last'.name)]
              ELSE [Exit(1) EXCEPT !.generated = Append(@, last'.name)]
    /\ UNCHANGED <<db, week_end_day, cal, mail, proc>>

\* step 2 of main(): the email, then return True; an exception is caught by main's
\* except clause, which returns False
Email(use_tls, use_auth, fails_at) ==
    /\ run.pc = "generated"
    /\ LET week_end_str == csv_filename(run.current_date, week_end_day)
           step == main_step2(run.send_email, run.config)
       IN  /\ mail' = IF step = "send"
                       THEN send_weekly_email(week_end_str, files[week_end_str],
                                              html[week_end_str], use_tls, use_auth, fails_at)
                       ELSE mail
           /\ run' = IF step = "raise" THEN Exit(1)
                     ELSE IF step = "send"
                          THEN [Exit(0) EXCEPT !.emailed = Append(@, week_end_str)]
                          ELSE Exit(0)
    /\ UNCHANGED <<files, db, week_end_day, last, cal, daily, html, proc>>

\* the store, the last week and the n weeks of the run p
NameOf(p) == csv_filename(proc[p].current_date, week_end_day)
LastWeekOf(p) == get_one_week_behind(proc[p].current_date, week_end_day)
NWeeksOf(p) == get_n_weeks_intervals(proc[p].current_date, proc[p].weeks_no, week_end_day)

\* the run p moves on; only the store file changes, if anything
StoreStep(p, next, content) ==
    /\ proc' = [proc EXCEPT ![p] = next]
    /\ files' = [files EXCEPT ![NameOf(p)] = content]
    /\ UNCHANGED <<db, week_end_day, last, cal, daily, html, run, mail>>

\* if not os.path.exists(csv_path): the bootstrap loop, else the update of the last week
StoreExists(p) ==
    /\ proc[p].pc = "start"
    /\ StoreStep(p,
          IF ~ files[NameOf(p)].exists
          THEN [proc[p] EXCEPT !.path = "bootstrap", !.i = 1,
                               !.pc = IF Len(NWeeksOf(p)) = 0 THEN "render" ELSE "save_check"]
          ELSE [proc[p] EXCEPT !.pc = "check_week"],
          files[NameOf(p)])

\* check_week_exists_in_csv(last_week_start, last_week_end, ...)
CheckWeek(p) ==
    /\ proc[p].pc = "check_week"
    /\ StoreStep(p,
          IF check_week_exists_in_csv(files[NameOf(p)], LastWeekOf(p)[1], LastWeekOf(p)[2])
          THEN [proc[p] EXCEPT !.path = "overwrite", !.pc = "read"]
          ELSE [proc[p] EXCEPT !.path = "append", !.pc = "save_check"],
          files[NameOf(p)])

\* rows = list(reader), then the rows of the last week are dropped from the list
ReadRows(p) ==
    /\ proc[p].pc = "read"
    /\ StoreStep(p,
          [proc[p] EXCEPT !.pc = "rewrite",
                          !.rows = remove_week(files[NameOf(p)], LastWeekOf(p)[1],
                                               LastWeekOf(p)[2]).rows],
          files[NameOf(p)])

\* open(csv_path, 'w'): the header and the rows kept
Rewrite(p) ==
    /\ proc[p].pc = "rewrite"
    /\ StoreStep(p, [proc[p] EXCEPT !.pc = "save_check"], File(proc[p].rows))

\* the count is queried, save_weekly_results_to_csv asks os.path.exists(csv_path)
SaveCheck(p) ==
    /\ proc[p].pc = "save_check"
    /\ StoreStep(p,
          [proc[p] EXCEPT !.pc = "save_append", !.file_exists = files[NameOf(p)].exists],
          files[NameOf(p)])

\* save_weekly_results_to_csv appends the row: of week i when bootstrapping, of the
\* last week otherwise
SaveAppend(p) ==
    /\ proc[p].pc = "save_append"
    /\ LET week == IF proc[p].path = "bootstrap" THEN NWeeksOf(p)[proc[p].i]
                   ELSE LastWeekOf(p)
       IN  StoreStep(p,
              IF proc[p].path = "bootstrap"
              THEN [proc[p] EXCEPT !.i = @ + 1,
                                   !.pc = IF proc[p].i < Len(NWeeksOf(p))
                                          THEN "save_check" ELSE "render"]
              ELSE [proc[p] EXCEPT !.pc = "trim_read"],
              append_row(files[NameOf(p)], proc[p].file_exists,
                         Row(week[1], week[2],
                             get_attacks_count_for_week(week[1], week[2], db))))

\* trim_csv_to_n_weeks reads and sorts the rows; strptime raises on a header line, and
\* generate_weekly_reports returns False
TrimRead(p) ==
    /\ proc[p].pc = "trim_read"
    /\ StoreStep(p,
          IF has_header_line(files[NameOf(p)].rows)
          THEN [proc[p] EXCEPT !.pc = "failed"]
          ELSE IF Len(files[NameOf(p)].rows) > proc[p].weeks_no
               THEN [proc[p] EXCEPT !.pc = "trim_write",
                        !.rows = PySliceFrom(sort_rows(files[NameOf(p)].rows),
                                             0 - proc[p].weeks_no)]
               ELSE [proc[p] EXCEPT !.pc = "render"],
          files[NameOf(p)])

\* trim_csv_to_n_weeks rewrites the store with the rows kept
TrimWrite(p) ==
    /\ proc[p].pc = "trim_write"
    /\ StoreStep(p, [proc[p] EXCEPT !.pc = "render"], File(proc[p].rows))

\* the charts and the daily file; strptime raises on a header line in the store before
\* anything is written, and generate_weekly_reports returns False
Render(p) ==
    /\ proc[p].pc = "render"
    /\ IF has_header_line(files[NameOf(p)].rows)
       THEN /\ proc' = [proc EXCEPT ![p].pc = "failed"]
            /\ UNCHANGED <<daily, html>>
       ELSE /\ proc' = [proc EXCEPT ![p].pc = "done"]
            /\ daily' = [daily EXCEPT ![NameOf(p)] =
                            generate_daily_attacks_csv(daily[NameOf(p)], proc[p].current_date,
                                                       week_end_day, db)]
            /\ html' = [html EXCEPT ![NameOf(p)] =
                            render(html[NameOf(p)], daily'[NameOf(p)], files[NameOf(p)])]
    /\ UNCHANGED <<files, db, week_end_day, last, cal, run, mail>>

\* the run p stops where it is (the process is killed, the machine goes down)
Crash(p) ==
    /\ proc[p].pc \notin {"start", "done", "failed", "crashed"}
    /\ proc' = [proc EXCEPT ![p].pc = "crashed", ![p].at = proc[p].pc]
    /\ UNCHANGED <<files, db, week_end_day, last, cal, daily, html, run, mail>>

\* the next complete run with the same arguments, once the stopped run is gone
RunAfterCrash(p) ==
    /\ proc[p].pc = "crashed"
    /\ last.op = "init"
    /\ generate_weekly_reports(proc[p].current_date, proc[p].weeks_no)

----------------------------------------------------------------------------
(* Specifications *)

\* sequential complete runs, starting with no store files and no databases
Init ==
    /\ files = [name \in FileNames |-> Absent]
    /\ db = [key \in SourceKeys |-> NoDatabase]
    /\ week_end_day \in 0..6
    /\ last = NoOp("init")
    /\ cal = NoCal
    /\ daily = [name \in FileNames |-> Absent]
    /\ html = [name \in FileNames |-> NoHtml]
    /\ run = NoRun
    /\ mail = NoMail
    /\ proc = NoProcs

Next ==
    \/ \E dt \in RunDates, weeks_no \in 0..MaxWeeks : generate_weekly_reports(dt, weeks_no)
    \/ \E key \in SourceKeys, date \in RecDates : AddRecord(key, date)

Spec == Init /\ [][Next]_vars

\* the rows a store named for week end `name` may hold when a run finds it: windows
\* ending on that day or whole weeks before it, with any count stored earlier
StoredCounts == {0, 1}
StoredRows(name) ==
    {[week_start |-> Calendar[strptime(name) - 7 * j - 6],
      week_end |-> Calendar[strptime(name) - 7 * j],
      attacks_count |-> c] : j \in 0..MaxRows, c \in StoredCounts}

SeqsUpTo(S, n) == UNION {[1..m -> S] : m \in 0..n}

\* the month databases holding at most MaxRec records, each filed under its own month
FiledDatabases ==
    {d \in [SourceKeys -> {NoDatabase} \cup
                {File(r) : r \in [RecDates -> 0..MaxRec] \ {NoRecords}}] :
        /\ TotalRecords(d) <= MaxRec
        /\ \A key \in SourceKeys : \A date \in RecDates :
               d[key].rows[date] > 0 => <<date[1], date[2]>> = key}

\* one run or one trim on one existing store of any content: rows in any physical order,
\* duplicate keys and stale counts included (what overlapping or interrupted runs,
\* which nothing guards against, can leave behind)
InitAny ==
    /\ week_end_day \in 0..6
    /\ \E name \in FileNames :
          /\ weekday(DateTime(strptime(name), 0)) = week_end_day
          /\ \E rows \in SeqsUpTo(StoredRows(name), MaxRows) :
                files = [n \in FileNames |-> IF n = name THEN File(rows) ELSE Absent]
    /\ db \in FiledDatabases
    /\ last = NoOp("init")
    /\ cal = NoCal
    /\ daily = [name \in FileNames |-> Absent]
    /\ html = [name \in FileNames |-> NoHtml]
    /\ run = NoRun
    /\ mail = NoMail
    /\ proc = NoProcs

\* a run whose store exists, as the first operation on it
RunOnStore(current_date, weeks_no) ==
    /\ last.op = "init"
    /\ files[csv_filename(current_date, week_end_day)].exists
    /\ generate_weekly_reports(current_date, weeks_no)

\* a trim of an existing store, as the first operation on it
TrimStore(name, weeks_no) ==
    /\ last.op = "init"
    /\ files[name].exists
    /\ TrimCsv(name, weeks_no)

NextAny ==
    \/ \E dt \in RunDates, weeks_no \in 0..(MaxRows + 1) : RunOnStore(dt, weeks_no)
    \/ \E name \in FileNames, weeks_no \in 0..(MaxRows + 1) : TrimStore(name, weeks_no)

SpecAny == InitAny /\ [][NextAny]_vars

\* the week-window functions applied to every reference date and weekday
NextCal ==
    \/ \E dt \in RefDates : CallOneWeekBehind(dt)
    \/ \E dt \in RefDates, weeks_no \in 0..MaxWeeks : CallNWeeksIntervals(dt, weeks_no)

SpecCal == Init /\ [][NextCal]_vars

\* the month databases in any condition: missing, readable or failing every query, each
\* holding up to MaxRec records per date, filed under any month
AnyDatabases ==
    [SourceKeys -> {NoDatabase} \cup {File(r) : r \in [RecDates -> 0..MaxRec]}
                               \cup {Broken(r) : r \in [RecDates -> 0..MaxRec]}]

\* the week windows a run with a reference date of RunDates queries
QueryWeeks ==
    {get_one_week_behind(minus_days(dt, 7 * j), week_end_day) :
        dt \in RunDates, j \in 0..(MaxWeeks - 1)}

\* the days around the record dates
QueryDays == {DateTime(strptime(s) + i, 0) : s \in RecDates, i \in {-1, 0, 1}}

InitQuery ==
    /\ files = [name \in FileNames |-> Absent]
    /\ db \in AnyDatabases
    /\ week_end_day \in 0..6
    /\ last = NoOp("init")
    /\ cal = NoCal
    /\ daily = [name \in FileNames |-> Absent]
    /\ html = [name \in FileNames |-> NoHtml]
    /\ run = NoRun
    /\ mail = NoMail
    /\ proc = NoProcs

\* one query or one run over databases in any condition
NextQuery ==
    \/ \E week \in QueryWeeks : CallCountForWeek(week)
    \/ \E date \in QueryDays : CallCountForDay(date)
    \/ \E dt \in RunDates, weeks_no \in 0..MaxWeeks : RunOnce(dt, weeks_no)

SpecQuery == InitQuery /\ [][NextQuery]_vars

\* the SMTP call that raises, if any
SmtpFaults == {"none", "connect", "starttls", "login", "sendmail"}

\* send_weekly_email called once on report files that may or may not be there
InitMail ==
    /\ week_end_day \in 0..6
    /\ \E name \in FileNames :
          /\ weekday(DateTime(strptime(name), 0)) = week_end_day
          /\ \E store \in {Absent, File(<<>>), File(<<Row(DateTime(strptime(name) - 6, 0),
                                                          DateTime(strptime(name), 0), 1)>>)} :
             \E doc \in {NoHtml, render(NoHtml, Absent, store)} :
                /\ files = [n \in FileNames |-> IF n = name THEN store ELSE Absent]
                /\ html = [n \in FileNames |-> IF n = name THEN doc ELSE NoHtml]
    /\ db = [key \in SourceKeys |-> NoDatabase]
    /\ last = NoOp("init")
    /\ cal = NoCal
    /\ daily = [name \in FileNames |-> Absent]
    /\ run = NoRun
    /\ mail = NoMail
    /\ proc = NoProcs

NextMail ==
    \E name \in FileNames, use_tls \in BOOLEAN, use_auth \in BOOLEAN, fails_at \in SmtpFaults :
        CallSendWeeklyEmail(name, use_tls, use_auth, fails_at)

SpecMail == InitMail /\ [][NextMail]_vars

\* one process running main_weekly.py on a configuration of any condition, with no
\* report files yet
InitMain ==
    /\ files = [name \in FileNames |-> Absent]
    /\ db \in FiledDatabases
    /\ week_end_day \in 0..6
    /\ last = NoOp("init")
    /\ cal = NoCal
    /\ daily = [name \in FileNames |-> Absent]
    /\ html = [name \in FileNames |-> NoHtml]
    /\ \E config \in Configs, send_email \in BOOLEAN :
          run = [NoRun EXCEPT !.pc = "start", !.config = config, !.send_email = send_email]
    /\ mail = NoMail
    /\ proc = NoProcs

NextMain ==
    \/ Validate
    \/ \E dt \in RunDates, weeks_no \in 0..MaxWeeks : LoadConfiguration(dt, weeks_no)
    \/ Generate
    \/ \E use_tls \in BOOLEAN, use_auth \in BOOLEAN, fails_at \in SmtpFaults :
          Email(use_tls, use_auth, fails_at)

SpecMain == InitMain /\ [][NextMain]_vars

\* what the daily file of week end `name` may hold before a run: nothing, one leftover
\* row, or the seven rows of an earlier run with other counts
OldDailyKinds == {"absent", "leftover", "stale"}
OldDaily(kind, name) ==
    IF kind = "absent" THEN Absent
    ELSE IF kind = "leftover"
         THEN File(<<DailyRow(DateTime(strptime(name), 0), MaxRec + 1)>>)
         ELSE File([i \in 1..7 |-> DailyRow(DateTime(strptime(name) - 7 + i, 0), MaxRec + 1)])

\* one run over databases in any condition, the daily files holding earlier content
InitDaily ==
    /\ files = [name \in FileNames |-> Absent]
    /\ db \in AnyDatabases
    /\ week_end_day \in 0..6
    /\ last = NoOp("init")
    /\ cal = NoCal
    /\ \E kind \in OldDailyKinds : daily = [name \in FileNames |-> OldDaily(kind, name)]
    /\ html = [name \in FileNames |-> NoHtml]
    /\ run = NoRun
    /\ mail = NoMail
    /\ proc = NoProcs

NextDaily == \E dt \in RunDates, weeks_no \in 0..MaxWeeks : RunOnce(dt, weeks_no)

SpecDaily == InitDaily /\ [][NextDaily]_vars

\* two runs with the same arguments on a store that is missing or was left by an
\* earlier complete run with these arguments, their file operations interleaved
InitRace ==
    /\ week_end_day \in 0..6
    /\ db \in FiledDatabases
    /\ \E dt \in RunDates, weeks_no \in 1..MaxWeeks :
       \E orig \in {Absent, store_update(Absent, dt, week_end_day, weeks_no, db)} :
          /\ files = [name \in FileNames |->
                         IF name = csv_filename(dt, week_end_day) THEN orig ELSE Absent]
          /\ proc = <<NewRun(dt, weeks_no, orig), NewRun(dt, weeks_no, orig)>>
    /\ last = NoOp("init")
    /\ cal = NoCal
    /\ daily = [name \in FileNames |-> Absent]
    /\ html = [name \in FileNames |-> NoHtml]
    /\ run = NoRun
    /\ mail = NoMail

NextRace ==
    \/ \E p \in DOMAIN proc : StoreExists(p)
    \/ \E p \in DOMAIN proc : CheckWeek(p)
    \/ \E p \in DOMAIN proc : ReadRows(p)
    \/ \E p \in DOMAIN proc : Rewrite(p)
    \/ \E p \in DOMAIN proc : SaveCheck(p)
    \/ \E p \in DOMAIN proc : SaveAppend(p)
    \/ \E p \in DOMAIN proc : TrimRead(p)
    \/ \E p \in DOMAIN proc : TrimWrite(p)
    \/ \E p \in DOMAIN proc : Render(p)

SpecRace == InitRace /\ [][NextRace]_vars

\* one run on the store an earlier complete run left, possibly with another retention
\* and other counts; the run may stop at any point and a complete run follows
InitCrash ==
    /\ week_end_day \in 0..6
    /\ db \in FiledDatabases
    /\ \E dt \in RunDates, weeks_no \in 0..MaxWeeks :
       \E before \in FiledDatabases, kept \in 1..MaxWeeks :
          /\ files = [name \in FileNames |->
                         IF name = csv_filename(dt, week_end_day)
                         THEN store_update(Absent, dt, week_end_day, kept, before)
                         ELSE Absent]
          /\ proc = <<NewRun(dt, weeks_no,
                             store_update(Absent, dt, week_end_day, kept, before))>>
    /\ last = NoOp("init")
    /\ cal = NoCal
    /\ daily = [name \in FileNames |-> Absent]
    /\ html = [name \in FileNames |-> NoHtml]
    /\ run = NoRun
    /\ mail = NoMail

NextCrash ==
    \/ \E p \in DOMAIN proc : StoreExists(p)
    \/ \E p \in DOMAIN proc : CheckWeek(p)
    \/ \E p \in DOMAIN proc : ReadRows(p)
    \/ \E p \in DOMAIN proc : Rewrite(p)
    \/ \E p \in DOMAIN proc : SaveCheck(p)
    \/ \E p \in DOMAIN proc : SaveAppend(p)
    \/ \E p \in DOMAIN proc : TrimRead(p)
    \/ \E p \in DOMAIN proc : TrimWrite(p)
    \/ \E p \in DOMAIN proc : Render(p)
    \/ \E p \in DOMAIN proc : Crash(p)
    \/ \E p \in DOMAIN proc : RunAfterCrash(p)

SpecCrash == InitCrash /\ [][NextCrash]_vars

\* sequential complete runs that all keep at least one week, from no store files
NextKept ==
    \/ \E dt \in RunDates, weeks_no \in 1..MaxWeeks : generate_weekly_reports(dt, weeks_no)
    \/ \E key \in SourceKeys, date \in RecDates : AddRecord(key, date)

SpecKept == Init /\ [][NextKept]_vars

----------------------------------------------------------------------------
(* Week-window calculator: properties, checked under SpecCal *)

Midnight(dt) == [dt EXCEPT !.sec = 0]
plus_days(dt, n) == [dt EXCEPT !.day = @ + n]

\* C7: for every reference datetime R (any time of day) and week-end weekday W,
\* get_one_week_behind(R, W) returns (start, end) with end - start = 6 days,
\* weekday(end) = W and end strictly earlier than midnight of R's date.
WeekWindowInvariant ==
    cal.op = "one" =>
        /\ cal.window[2] = plus_days(cal.window[1], 6)
        /\ weekday(cal.window[2]) = week_end_day
        /\ ~ dt_ge(cal.window[2], Midnight(cal.dt))

\* R falls on the week-end weekday, late in the day, and the window ends a week before
WeekWindowWitness ==
    /\ cal.op = "one"
    /\ weekday(cal.dt) = week_end_day
    /\ cal.dt.sec = 86399
    /\ cal.window[2] = minus_days(Midnight(cal.dt), 7)

\* C8: the end returned by get_one_week_behind is the latest date with weekday W
\* strictly before R's date: date(R) - end is (weekday(R) - W) mod 7 days when that
\* is non-zero and 7 days when R falls on weekday W; R = 2024-03-13, W = 6 gives
\* (2024-03-04, 2024-03-10) and R = 2024-03-10, W = 6 gives (2024-02-26, 2024-03-03).
MostRecentChoice ==
    /\ LET w == get_one_week_behind(datetime(2024, 3, 13), 6)
       IN  <<strftime(w[1]), strftime(w[2])>> = <<<<2024, 3, 4>>, <<2024, 3, 10>>>>
    /\ LET w == get_one_week_behind(datetime(2024, 3, 10), 6)
       IN  <<strftime(w[1]), strftime(w[2])>> = <<<<2024, 2, 26>>, <<2024, 3, 3>>>>
    /\ cal.op = "one" =>
        LET diff == (weekday(cal.dt) - week_end_day) % 7
            end == cal.window[2]
        IN  /\ weekday(end) = week_end_day
            /\ end.day < cal.dt.day
            /\ \A n \in (end.day + 1) .. (cal.dt.day - 1) :
                   weekday(DateTime(n, 0)) # week_end_day
            /\ cal.dt.day - end.day = (IF diff # 0 THEN diff ELSE 7)
            /\ cal.window[1] = minus_days(end, 6)

\* the call of the second example: a Sunday reference with Sunday as week end
MostRecentWitness ==
    /\ cal.op = "one"
    /\ week_end_day = 6
    /\ strftime(cal.dt) = <<2024, 3, 10>>
    /\ strftime(cal.window[1]) = <<2024, 2, 26>>
    /\ strftime(cal.window[2]) = <<2024, 3, 3>>

\* C9: get_n_weeks_intervals(R, k, W) returns exactly k windows in ascending
\* chronological order, contiguous and non-overlapping (each window starts the day
\* after the previous one ends), and for k >= 1 its last element is
\* get_one_week_behind(R, W).
NWeeksContiguous ==
    cal.op = "n" =>
        /\ Len(cal.weeks) = cal.weeks_no
        /\ \A i \in 1..Len(cal.weeks) :
               cal.weeks[i][2] = plus_days(cal.weeks[i][1], 6)
        /\ \A i \in 1..(Len(cal.weeks) - 1) :
               cal.weeks[i + 1][1] = plus_days(cal.weeks[i][2], 1)
        /\ cal.weeks_no >= 1 =>
               cal.weeks[Len(cal.weeks)] = get_one_week_behind(cal.dt, week_end_day)

\* a call with the largest count, on a reference that is itself a week-end day
NWeeksWitness ==
    /\ cal.op = "n"
    /\ cal.weeks_no = MaxWeeks
    /\ Len(cal.weeks) = MaxWeeks
    /\ weekday(cal.dt) = week_end_day
    /\ cal.weeks[MaxWeeks][2].day = cal.dt.day - 7
    /\ cal.weeks[1][2].day = cal.dt.day - 7 * MaxWeeks

\* C10: if (start, end) = get_one_week_behind(R, W), then for every date D with
\* end < D < end + 7 days, get_one_week_behind(D, W) returns the same (start, end).
WeekWindowStable ==
    cal.op = "one" =>
        \A n \in (cal.window[2].day + 1) .. (cal.window[2].day + 6) :
            \A s \in TimesOfDay :
                get_one_week_behind(DateTime(n, s), week_end_day) = cal.window

\* R is the day after the window's end, and the last second of end + 6 days
\* still selects the same window
WeekWindowStableWitness ==
    /\ cal.op = "one"
    /\ cal.dt.day = cal.window[2].day + 1
    /\ get_one_week_behind(DateTime(cal.window[2].day + 6, 86399), week_end_day)
           = cal.window

----------------------------------------------------------------------------
(* Trend-store updater: properties *)

\* the window the store named `name` is refreshed for
LastWeek(name) ==
    <<DateTime(strptime(name) - 6, 0), DateTime(strptime(name), 0)>>

\* the positions of the rows whose (week_start, week_end) is that window
MatchingRows(rows, name) ==
    {i \in 1..Len(rows) :
        /\ rows[i].week_start = strftime(LastWeek(name)[1])
        /\ rows[i].week_end = strftime(LastWeek(name)[2])}

\* the count a query of that window returns from the databases as they are
FreshCount(name) ==
    get_attacks_count_for_week(LastWeek(name)[1], LastWeek(name)[2], db)

PresentPath == last.op = "run" /\ last.path \in {"overwrite", "append"}

\* C1: a run that immediately follows a run on the same store with the same
\* week-end weekday and retention, the attack data unchanged in between, leaves
\* every store exactly as the first run left it (same rows, counts and order).
\* Checked under Spec; the reference dates of the two runs need only select the
\* same week, which covers equal reference dates.
StoreUpdateIdempotent ==
    [][(/\ last.op = "run"
        /\ last'.op = "run"
        /\ last'.name = last.name
        /\ last'.weeks_no = last.weeks_no
        /\ db' = db)
       => files' = files]_vars

\* the second of two such runs has rewritten a full store holding a positive count
IdempotentWitness ==
    /\ last.op = "run"
    /\ last.repeat
    /\ last.path = "overwrite"
    /\ last.weeks_no = MaxWeeks
    /\ Len(files[last.name].rows) = MaxWeeks
    /\ files[last.name].rows[MaxWeeks].attacks_count >= 1

\* C2: after a run that found its store present, the store holds exactly one row
\* for the most recently completed week, and that row's count is the count the
\* run queried, whether or not (and however often) the store held that week before.
\* Checked under SpecAny.
PresentPathRefresh ==
    PresentPath =>
        LET rows == files[last.name].rows
        IN  /\ Cardinality(MatchingRows(rows, last.name)) = 1
            /\ \A i \in MatchingRows(rows, last.name) :
                   rows[i].attacks_count = FreshCount(last.name)

\* the store held the week twice; both rows went and one fresh row, with a positive
\* count, was written (the retention is too large for the trim to remove anything)
PresentPathWitness ==
    /\ PresentPath
    /\ last.path = "overwrite"
    /\ last.rows_before = 2
    /\ last.weeks_no > last.rows_before
    /\ Len(files[last.name].rows) = 1
    /\ files[last.name].rows[1].attacks_count = FreshCount(last.name)
    /\ FreshCount(last.name) >= 1

\* the row of the i-th of k windows ending with the week of `name`
ExpectedRow(name, i, k) ==
    LET week_end == DateTime(strptime(name) - 7 * (k - i), 0)
        week_start == DateTime(strptime(name) - 7 * (k - i) - 6, 0)
    IN  Row(week_start, week_end, get_attacks_count_for_week(week_start, week_end, db))

\* C3: a run that finds the store Absent and requests k windows creates the store
\* with exactly k rows, one per window, oldest first, no key twice, each with the
\* count queried for its own window.  Checked under Spec.
BootstrapCreatesStore ==
    (last.op = "run" /\ last.path = "bootstrap") =>
        /\ files[last.name].exists
        /\ Len(files[last.name].rows) = last.weeks_no
        /\ \A i \in 1..Len(files[last.name].rows) :
               files[last.name].rows[i] = ExpectedRow(last.name, i, last.weeks_no)

\* the same with at least one window requested; with none the run writes nothing
\* and the store is still Absent afterwards
BootstrapRows ==
    (last.op = "run" /\ last.path = "bootstrap") =>
        IF last.weeks_no = 0 THEN files[last.name] = Absent
        ELSE /\ files[last.name].exists
             /\ Len(files[last.name].rows) = last.weeks_no
             /\ \A i \in 1..last.weeks_no :
                    files[last.name].rows[i] = ExpectedRow(last.name, i, last.weeks_no)

\* C4: after trim_csv_to_n_weeks(N), N >= 0, and hence after every run that found
\* its store present, the store holds at most N rows: the min(count, N) rows with
\* the latest week_start of the rows before; with count <= N nothing is removed.
\* Checked under SpecAny.
RetentionBound ==
    [][(last'.op = "trim" \/ PresentPath') =>
        LET n == last'.weeks_no
            post == files'[last'.name].rows
        IN  /\ Len(post) <= n
            /\ last'.op = "trim" =>
                 LET pre == files[last'.name].rows
                     sorted == sort_rows(pre)
                 IN  IF Len(pre) <= n THEN post = pre
                     ELSE post = SubSeq(sorted, Len(pre) - n + 1, Len(pre))]_vars

\* C5: after any sequence of complete runs, one after the other, starting from no
\* store files, every store holds at most one row per (week_start, week_end).
\* Checked under Spec.
KeyUnique ==
    \A name \in FileNames :
        \A i \in 1..Len(files[name].rows) : \A j \in (i + 1)..Len(files[name].rows) :
            \/ files[name].rows[i].week_start # files[name].rows[j].week_start
            \/ files[name].rows[i].week_end # files[name].rows[j].week_end

\* two stores exist, and the one just refreshed for the second time is full
KeyUniqueWitness ==
    /\ last.op = "run"
    /\ last.path = "overwrite"
    /\ Cardinality({name \in FileNames : files[name].exists}) = 2
    /\ \A name \in FileNames : files[name].exists => Len(files[name].rows) = MaxWeeks

\* C6 as stated: after a run that found its store present, whatever the store held,
\* its rows are in ascending week_start order.  Checked under SpecAny.
SortedAfterUpdate ==
    PresentPath => IsAscending(files[last.name].rows)

\* C6 as amended: after a run that found its store present, whatever the store held,
\* the rows are in ascending week_start order whenever the row count after the
\* update of the last week exceeds the retention (otherwise the file is not
\* rewritten and keeps its physical order).  Checked under SpecAny.
SortedWhenTrimmed ==
    [][(/\ PresentPath'
        /\ LET pre == files[last'.name].rows
           IN  Len(pre) - Cardinality(MatchingRows(pre, last'.name)) + 1
                   > last'.weeks_no)
       => IsAscending(files'[last'.name].rows)]_vars

\* a store whose rows were out of order has been updated and trimmed to two rows
SortedWitness ==
    /\ PresentPath
    /\ last.unsorted_before
    /\ last.weeks_no = 2
    /\ Len(files[last.name].rows) = 2
    /\ IsAscending(files[last.name].rows)

----------------------------------------------------------------------------
(* Attack-count query: properties, checked under SpecQuery *)

\* the month key lies within the window: its first day is not after the window's end
\* and its last day not before the window's start
SpansMonth(key, week) ==
    /\ strptime(<<key[1], key[2], 1>>) <= week[2].day
    /\ strptime(<<key[1], key[2], DaysInMonth(key[1], key[2])>>) >= week[1].day

\* the records of the database key dated within the window, counted by ordinal
RecordsInWindow(key, week) ==
    SumOver([date \in RecDates |->
                IF week[1].day <= strptime(date) /\ strptime(date) <= week[2].day
                THEN db[key].rows[date] ELSE 0],
            RecDates)

\* the records of the database key dated on the day of ordinal n
RecordsOn(key, n) ==
    SumOver([date \in RecDates |-> IF strptime(date) = n THEN db[key].rows[date] ELSE 0],
            RecDates)

Readable(key) == db[key].exists /\ ~ query_fails(db[key])

\* the sum of the in-window records over the spanned databases that can be read
ReadableCount(week) ==
    SumOver([key \in SourceKeys |->
                IF SpansMonth(key, week) /\ Readable(key)
                THEN RecordsInWindow(key, week) ELSE 0],
            SourceKeys)

\* C11: when no query fails, get_attacks_count_for_week returns the sum, over the months
\* the window spans, of the records of that month's database dated within
\* [week_start, week_end] inclusive, a missing database contributing 0.
WeekCountIsSum ==
    (/\ cal.op = "week"
     /\ \A key \in SourceKeys : ~ (db[key].exists /\ query_fails(db[key])))
        => cal.count = SumOver([key \in SourceKeys |->
                                  IF SpansMonth(key, cal.window) /\ db[key].exists
                                  THEN RecordsInWindow(key, cal.window) ELSE 0],
                               SourceKeys)

\* a window over February and March whose February database is missing: the count is the
\* March database's contribution
WeekCountWitness ==
    /\ cal.op = "week"
    /\ \A key \in SourceKeys : SpansMonth(key, cal.window)
    /\ ~ db[<<2024, 2>>].exists
    /\ Readable(<<2024, 3>>)
    /\ RecordsInWindow(<<2024, 3>>, cal.window) = 1
    /\ cal.count = 1

\* C12: a database whose query fails contributes 0 to get_attacks_count_for_week while the
\* other months are still counted; get_attacks_count_for_day returns 0 when the database
\* of the day is missing or its query fails; a run over such databases returns True and
\* stores the count of the readable databases.
QueryFailureContained ==
    /\ cal.op = "week" => cal.count = ReadableCount(cal.window)
    /\ cal.op = "day" =>
          IF Readable(<<strftime(cal.dt)[1], strftime(cal.dt)[2]>>)
          THEN cal.count = RecordsOn(<<strftime(cal.dt)[1], strftime(cal.dt)[2]>>, cal.dt.day)
          ELSE cal.count = 0
    /\ last.op = "run" =>
          /\ last.ok
          /\ last.weeks_no > 0 =>
                \E i \in 1..Len(files[last.name].rows) :
                    /\ files[last.name].rows[i].week_end = last.name
                    /\ files[last.name].rows[i].attacks_count =
                          ReadableCount(<<DateTime(strptime(last.name) - 6, 0),
                                          DateTime(strptime(last.name), 0)>>)

\* a window over two months: the February query fails on a database that holds a record
\* of the window, and the record of the March database is still counted
QueryFailureWitness ==
    /\ cal.op = "week"
    /\ \A key \in SourceKeys : SpansMonth(key, cal.window)
    /\ db[<<2024, 2>>].exists /\ query_fails(db[<<2024, 2>>])
    /\ RecordsInWindow(<<2024, 2>>, cal.window) = 1
    /\ Readable(<<2024, 3>>)
    /\ RecordsInWindow(<<2024, 3>>, cal.window) = 1
    /\ cal.count = 1

----------------------------------------------------------------------------
(* Notifier and orchestration: properties, checked under SpecMail and SpecMain *)

\* C13: when the CSV file or the HTML file named from week_end_date is missing,
\* send_weekly_email returns False, reports the missing file (the CSV file when both are
\* missing), and makes no SMTP call at all.
NotifierPrecondition ==
    (/\ mail.called
     /\ ~ files[mail.week_end_date].exists \/ ~ html[mail.week_end_date].exists)
        => /\ ~ mail.result
           /\ mail.smtp = <<>>
           /\ mail.reported = IF ~ files[mail.week_end_date].exists
                               THEN "CSV file not found" ELSE "HTML file not found"

\* the store is there, the chart is not: refused with the HTML file reported
NotifierWitness ==
    /\ mail.called
    /\ files[mail.week_end_date].exists
    /\ ~ html[mail.week_end_date].exists
    /\ mail.reported = "HTML file not found"
    /\ mail.smtp = <<>>

\* the report files and the notifier are untouched
NoWorkDone ==
    /\ run.generated = <<>> /\ run.emailed = <<>>
    /\ last.op = "init"
    /\ ~ mail.called
    /\ \A name \in FileNames :
          ~ files[name].exists /\ ~ daily[name].exists /\ ~ html[name].exists

\* C14: with a configuration that loads, the process exits non-zero when
\* generate_weekly_reports returns False and exits 0 when it returns True, whatever
\* happens in the email step.
ExitStatus ==
    (run.pc = "exited" /\ run.generated # <<>>)
        => (run.exit = 0 <=> last.ok)

StageOrdering ==
    /\ Len(run.emailed) <= 1 /\ Len(run.generated) <= 1
    /\ mail.called <=> run.emailed # <<>>
    /\ ~ run.send_email => ~ mail.called
    /\ mail.called =>
          /\ run.generated = run.emailed
          /\ last.op = "run" /\ last.ok
          /\ mail.week_end_date = last.name
          /\ run.emailed[1] = last.name
          /\ html[last.name].exists /\ daily[last.name].exists
          /\ last.weeks_no > 0 => files[last.name].exists

\* the email has been sent for the week end of the store this run wrote
StageOrderingWitness ==
    /\ run.pc = "exited"
    /\ mail.called /\ mail.result
    /\ files[mail.week_end_date].exists
    /\ Len(files[mail.week_end_date].rows) = last.weeks_no
    /\ last.weeks_no = MaxWeeks

----------------------------------------------------------------------------
(* Daily file and chart document: properties, checked under SpecDaily and Spec *)

\* the count a database that can be read holds for the day of ordinal n, 0 otherwise
ExpectedDayCount(n) ==
    IF /\ <<Calendar[n][1], Calendar[n][2]>> \in SourceKeys
       /\ Readable(<<Calendar[n][1], Calendar[n][2]>>)
    THEN RecordsOn(<<Calendar[n][1], Calendar[n][2]>>, n)
    ELSE 0

\* C17: after a run the daily file of the last completed week holds exactly 7 rows, one
\* per day from the window's start to its end in ascending order, each with the count of
\* get_attacks_count_for_day for that day, and nothing of what it held before.
DailyRegenerated ==
    last.op = "run" =>
        /\ daily[last.name].exists
        /\ Len(daily[last.name].rows) = 7
        /\ \A i \in 1..7 :
              /\ i <= Len(daily[last.name].rows)
              /\ daily[last.name].rows[i].date = Calendar[strptime(last.name) - 7 + i]
              /\ daily[last.name].rows[i].attacks_count =
                    ExpectedDayCount(strptime(last.name) - 7 + i)

\* the daily files held seven rows of an earlier run, all with a count no database gives;
\* the run has replaced those of its week, one day now counting a record
DailyWitness ==
    /\ last.op = "run"
    /\ \E name \in FileNames \ {last.name} :
          /\ Len(daily[name].rows) = 7
          /\ daily[name].rows[1].attacks_count = MaxRec + 1
    /\ \E i \in 1..7 : daily[last.name].rows[i].attacks_count = 1
    /\ \E i \in 1..7 : daily[last.name].rows[i].attacks_count = 0

\* C18: when the store holds no rows at the end of a run (it is missing or has only its
\* header), the chart document left for that week end is an error placeholder.
EmptyStoreRendersPlaceholder ==
    (last.op = "run" /\ files[last.name].rows = <<>>)
        => /\ html[last.name].exists
           /\ html[last.name].title = "Error: CSV file not found"
           /\ html[last.name].weekly = <<>> /\ html[last.name].daily = <<>>

----------------------------------------------------------------------------
(* Overlapping and interrupted runs: properties, checked under SpecRace and SpecCrash *)

AllFinished == \A p \in DOMAIN proc : proc[p].pc \in {"done", "failed"}

\* the number of rows of the store of run p that carry the week end of `week`
Occurrences(p, week) ==
    Cardinality({i \in 1..Len(files[NameOf(p)].rows) :
                    files[NameOf(p)].rows[i].week_end = strftime(week[2])})

\* the store two runs with the arguments of run p leave when one follows the other
Sequential(p) ==
    store_update(
        store_update(proc[p].orig, proc[p].current_date, week_end_day, proc[p].weeks_no, db),
        proc[p].current_date, week_end_day, proc[p].weeks_no, db)

\* C19: two runs with the same arguments are not serialised: when both find the store
\* missing, both bootstrap it, and at the end every week of the store is there twice, which
\* is not the store one run after the other leaves; when both find the row of the last
\* week, the store ends with that row once or twice.
RunsNotSerialised ==
    /\ (AllFinished /\ \A p \in DOMAIN proc : proc[p].path = "bootstrap")
          => /\ \A j \in 1..Len(NWeeksOf(1)) : Occurrences(1, NWeeksOf(1)[j]) = 2
             /\ files[NameOf(1)] # Sequential(1)
    /\ (AllFinished /\ \A p \in DOMAIN proc : proc[p].path = "overwrite")
          => Occurrences(1, LastWeekOf(1)) \in {1, 2}

\* both runs have ended and the store is not what one run after the other leaves: the
\* last week is there twice
RaceWitness ==
    /\ AllFinished
    /\ files[NameOf(1)] # Sequential(1)
    /\ Occurrences(1, LastWeekOf(1)) = 2
    /\ \A p \in DOMAIN proc : proc[p].path = "overwrite"

\* C20: on the overwrite path the row of the last week is removed by a rewrite of the
\* whole store before the fresh count is appended: a run stopped between the two leaves
\* a store without a row for the last week, and the next complete run with the same
\* arguments appends it and leaves the store an uninterrupted run would have left.
CrashRecovery ==
    \A p \in DOMAIN proc :
        (/\ proc[p].pc = "crashed"
         /\ proc[p].path = "overwrite"
         /\ proc[p].at \in {"save_check", "save_append"})
            => IF last.op = "init"
               THEN Occurrences(p, LastWeekOf(p)) = 0
               ELSE /\ last.path = "append"
                    /\ files[NameOf(p)] =
                          store_update(proc[p].orig, proc[p].current_date, week_end_day,
                                       proc[p].weeks_no, db)

\* a run stopped after the rewrite, the store then had one row less; the complete run
\* that followed has put the fresh count of the last week where the stale one was
CrashRecoveryWitness ==
    /\ proc[1].pc = "crashed"
    /\ proc[1].path = "overwrite"
    /\ proc[1].at = "save_append"
    /\ last.op = "run"
    /\ last.rows_before = Len(proc[1].orig.rows) - 1
    /\ files[NameOf(1)] # proc[1].orig
    /\ Len(files[NameOf(1)].rows) = MaxWeeks

----------------------------------------------------------------------------
(* Store selection and store shape over sequences of runs: properties, checked under Spec
   and SpecKept *)

\* a run has already selected the week end `name`: every complete run writes the daily
\* file of its week end, and nothing else creates that file
HasRun(name) == daily[name].exists

\* C21: the store a run reads and writes is the one named for the end of the most
\* recently completed week: the run leaves the report files of every other week end as
\* they were, the last row it writes is the window ending on the store's name, and the
\* first run that selects a week end finds its store Absent and bootstraps it, writing
\* one freshly queried row per requested window.
StoreSelectedByWeekEnd ==
    [][last'.op = "run" =>
        /\ \A name \in FileNames \ {last'.name} :
              /\ files'[name] = files[name]
              /\ daily'[name] = daily[name]
              /\ html'[name] = html[name]
        /\ last'.weeks_no >= 1 =>
              /\ files'[last'.name].exists
              /\ files'[last'.name].rows[Len(files'[last'.name].rows)].week_end = last'.name
              /\ files'[last'.name].rows[Len(files'[last'.name].rows)].week_start =
                    strftime(LastWeek(last'.name)[1])
        /\ ~ HasRun(last'.name) =>
              /\ ~ files[last'.name].exists
              /\ last'.path = "bootstrap"
              /\ Len(files'[last'.name].rows) = last'.weeks_no
              /\ \A i \in 1..Len(files'[last'.name].rows) :
                    files'[last'.name].rows[i] = ExpectedRow(last'.name, i, last'.weeks_no)
       ]_vars

\* the store of the week before is there with its rows; the first run of the new week has
\* bootstrapped its own store, and its row for the earlier week carries the count queried
\* now, which the older store does not have
StoreSelectionWitness ==
    /\ last.op = "run"
    /\ last.path = "bootstrap"
    /\ last.weeks_no = MaxWeeks
    /\ Len(files[last.name].rows) = MaxWeeks
    /\ \E prev \in FileNames :
          /\ strptime(prev) = strptime(last.name) - 7
          /\ Len(files[prev].rows) = MaxWeeks
          /\ files[prev].rows[MaxWeeks].week_end = prev
          /\ files[last.name].rows[MaxWeeks - 1].week_end = prev
          /\ files[prev].rows[MaxWeeks].attacks_count = 0
          /\ files[last.name].rows[MaxWeeks - 1].attacks_count = 1

\* the rows are windows of 7 days, each starting the day after the one before it ends,
\* and the last one ends on the day the store is named for
StoreShape(name) ==
    LET rows == files[name].rows
    IN  files[name].exists =>
           /\ rows # <<>>
           /\ \A i \in 1..Len(rows) :
                 strptime(rows[i].week_end) = strptime(rows[i].week_start) + 6
           /\ \A i \in 1..(Len(rows) - 1) :
                 strptime(rows[i + 1].week_start) = strptime(rows[i].week_end) + 1
           /\ rows[Len(rows)].week_end = name

\* C22: over complete sequential runs from no store files, each keeping at least one week,
\* every existing store holds a non-empty sequence of contiguous 7-day windows in ascending
\* physical order whose last row is the window ending on the store's name; the run that
\* bootstraps a store writes as many rows as its retention, and no later run adds to the
\* number of rows, whatever its retention (older windows are not backfilled).
ReachableStoreShape ==
    [][/\ \A name \in FileNames : StoreShape(name)'
       /\ last'.op = "run" =>
             /\ last'.path = "bootstrap" => Len(files'[last'.name].rows) = last'.weeks_no
             /\ last'.path # "bootstrap" =>
                   Len(files'[last'.name].rows) <= Len(files[last'.name].rows)
      ]_vars

\* a store bootstrapped or trimmed to one row has been refreshed by a run with a larger
\* retention and still holds the one row, while the store of the week before is full
StoreShapeWitness ==
    /\ last.op = "run"
    /\ last.path = "overwrite"
    /\ last.weeks_no = MaxWeeks
    /\ last.rows_before = 1
    /\ Len(files[last.name].rows) = 1
    /\ files[last.name].rows[1].week_end = last.name
    /\ \E prev \in FileNames \ {last.name} : Len(files[prev].rows) = MaxWeeks

----------------------------------------------------------------------------
(* Frame of a run on an existing store: property, checked under SpecAny *)

\* whether the row is the one of the window the store `name` is refreshed for
IsLastWeekRow(row, name) ==
    /\ row.week_start = strftime(LastWeek(name)[1])
    /\ row.week_end = strftime(LastWeek(name)[2])

\* the number of rows of the sequence equal to row
CountOf(rows, row) == Cardinality({i \in 1..Len(rows) : rows[i] = row})

\* the count a query of the window of the row returns from the databases as they are
RowFreshCount(row) ==
    get_attacks_count_for_week(DateTime(strptime(row.week_start), 0),
                               DateTime(strptime(row.week_end), 0), db)

\* C23: a run on an existing store calls get_attacks_count_for_week for the most recently
\* completed window and for no other, and every row of another window that the store
\* still holds after the run is a row it held before, with the same week_start, week_end
\* and attacks_count, whatever the databases now hold for that window.
PresentPathFrame ==
    [][PresentPath' =>
        /\ last'.queried = <<LastWeek(last'.name)>>
        /\ \A i \in 1..Len(files'[last'.name].rows) :
              ~ IsLastWeekRow(files'[last'.name].rows[i], last'.name) =>
                 /\ CountOf(files[last'.name].rows, files'[last'.name].rows[i]) >= 1
                 /\ CountOf(files'[last'.name].rows, files'[last'.name].rows[i])
                       <= CountOf(files[last'.name].rows, files'[last'.name].rows[i])
       ]_vars

\* the store keeps, before the fresh row of the last week, the row of the week before it
\* with the count 0 stored earlier, although a query of that window now returns 1
PresentPathFrameWitness ==
    /\ PresentPath
    /\ last.queried = <<LastWeek(last.name)>>
    /\ Len(files[last.name].rows) = 2
    /\ IsLastWeekRow(files[last.name].rows[2], last.name)
    /\ strptime(files[last.name].rows[1].week_end) = strptime(last.name) - 7
    /\ files[last.name].rows[1].attacks_count = 0
    /\ RowFreshCount(files[last.name].rows[1]) = 1

----------------------------------------------------------------------------
(* Daily and weekly counts of one window: property, checked under SpecDaily *)

\* every record is filed in the database of its own month
FiledUnderOwnMonth ==
    \A key \in SourceKeys : \A date \in RecDates :
        db[key].rows[date] > 0 => <<date[1], date[2]>> = key

\* no database that exists fails its queries
NoQueryFails == \A key \in SourceKeys : ~ (db[key].exists /\ query_fails(db[key]))

\* C24: when every database holds only records of its own month and no query fails, the
\* total of the seven daily counts that generate_daily_attacks_csv writes and returns for
\* the most recently completed window equals get_attacks_count_for_week for that window,
\* also when the window spans two months or a month's database is missing; the row the
\* run stores for that window carries the same count.
DailyWeeklyConsistent ==
    (last.op = "run" /\ FiledUnderOwnMonth /\ NoQueryFails) =>
        /\ total_attacks(daily[last.name].rows) = FreshCount(last.name)
        /\ \A i \in 1..Len(files[last.name].rows) :
              IsLastWeekRow(files[last.name].rows[i], last.name) =>
                 files[last.name].rows[i].attacks_count = total_attacks(daily[last.name].rows)

\* the window runs from February into March, each month's database holds one record of
\* it, and the seven daily counts add up to the 2 that the weekly query returns
DailyWeeklyWitness ==
    /\ last.op = "run"
    /\ FiledUnderOwnMonth /\ NoQueryFails
    /\ \A key \in SourceKeys : SpansMonth(key, LastWeek(last.name)) /\ db[key].exists
    /\ total_attacks(daily[last.name].rows) = 2
    /\ FreshCount(last.name) = 2
    /\ last.weeks_no >= 1
    /\ files[last.name].rows[Len(files[last.name].rows)].attacks_count = 2

====
